---- MODULE Spec2Model ----
(***************************************************************************)
(* Model of PodcastSpeakerSeparator (src/podcast_audio_segmentation.py).   *)
(*                                                                         *)
(* One object of the class is modelled together with the files it reads    *)
(* and writes.  Time is discrete: Segment times are held in ticks of half  *)
(* a millisecond (the CSV holds float seconds, a tick is 0.0005 s), audio  *)
(* is a sequence of one-millisecond cells, as pydub indexes it.  A cell is *)
(* << >> for generated silence and <<k>> for the Recording's audio of      *)
(* millisecond k.  External collaborators (the classifier, ffmpeg, the     *)
(* file system) are nondeterministic: a call succeeds or fails.            *)
(***************************************************************************)
EXTENDS Integers, Sequences, FiniteSets, TLC

\* ---------------------------------------------------------------- bounds
\* Largest number of rows of a Segment List with arbitrary times.
MaxSegs == 2
\* Largest number of rows of a Segment List of back-to-back segments.
MaxRows == 3
\* The same where every method may be called in any order.
MaxCallRows == 2
\* Largest Segment time, in ticks of half a millisecond.
MaxTick == 6
\* len(self.audio): the Recording's length in milliseconds.
RecordingMs == 2

\* ---------------------------------------------------------------- values
None == << >>
Some(x) == <<x>>
Get(o) == o[1]

Min(a, b) == IF a < b THEN a ELSE b

\* The labels the classifier writes, and the two the callers ask for
\* (lines 447-448, 476-477).
Labels == {"male", "female", "noEnergy"}
VoiceLabels == {"male", "female"}

\* A row of the classifier's output: stop > start >= 0, in ticks.
Segments ==
    {s \in [labels : Labels, start : 0..MaxTick, stop : 0..MaxTick] : s.start < s.stop}

\* Any list of rows: gaps, overlaps, rows out of order, rows that end after
\* the Recording does.
SegmentLists == UNION {[1..n -> Segments] : n \in 0..MaxSegs}

\* Lists as the classifier writes them: row n covers millisecond n, the rows
\* are back to back, only the labels vary.  The rows after RecordingMs lie
\* beyond the end of the Recording.
ContiguousLists(rows) ==
    UNION {{[n \in 1..len |-> [labels |-> ls[n], start |-> 2 * (n - 1), stop |-> 2 * n]] :
               ls \in [1..len -> Labels]} : len \in 0..rows}

\* int(row['start'] * 1000): float seconds to whole milliseconds, truncating.
\* t ticks are t / 2000 seconds.
ToMs(t) == (t * 1000) \div 2000

\* ---------------------------------------------------------------- pydub
\* AudioSegment.silent(duration=d): d milliseconds of silence, nothing for d <= 0.
silent(d) == [k \in 1..d |-> << >>]

\* self.audio[a:b]: both ends are clamped to len(self.audio).
AudioSlice(a, b) ==
    LET a2 == Min(a, RecordingMs)
        b2 == Min(b, RecordingMs)
    IN  [k \in 1..(b2 - a2) |-> <<a2 + k - 1>>]

VARIABLES
    segmentation,     \* what the classifier yields for this Recording
    segmenter,        \* self.segmenter: None or the loaded model
    segments_df,      \* self.segments_df: None or Some(rows)
    audio,            \* self.audio: None or Some(length in ms)
    pc,               \* position inside the running method, "idle" between calls
    call,             \* the method running or last run, with its arguments
    i,                \* loop position of the running method
    male_audio,       \* accumulators of create_synchronized_tracks
    female_audio,
    current_time_ms,  \* its cursor
    segment_files,    \* extract_speaker_segments: clips produced so far
    slice_log,        \* slicer invocations of the running call: <<idx, ok>>
    concat_input,     \* concatenator invocation of the running call: None or Some(clips)
    merge_input,      \* channel-merger invocation of the running call: None or Some(lengths)
    written,          \* output files written by the running call
    warnings,         \* removals the running call warned about: clips, and the list file
    ret,              \* value returned by the last finished call
    raised,           \* exception raised by the last finished call, "none" if none
    clips,            \* per-segment clip files on disk: <<label, idx>>
    list_files,       \* concat list files on disk: label -> listed clips
    concat_files,     \* concatenated outputs on disk: label -> joined clips
    synced_files,     \* synchronized tracks on disk: label -> cells
    stereo_files,     \* stereo mix on disk: None or Some(length in ms)
    archives,         \* archives on disk: label -> archived clips
    wf_pc,            \* process_complete_workflow: the step it is at, "none" if not running
    flags,            \* its four arguments
    results,          \* the keys of its results dictionary
    outcome           \* what each extraction of the workflow ended in: label -> outcome

objvars == <<segmentation, segmenter, segments_df, audio>>
syncvars == <<male_audio, female_audio, current_time_ms>>
logvars == <<slice_log, concat_input, merge_input, written, warnings>>
wfvars == <<wf_pc, flags, results, outcome>>
diskvars == <<clips, list_files, concat_files, synced_files, stereo_files, archives>>
vars == <<objvars, pc, call, i, syncvars, segment_files, logvars, ret, raised, diskvars,
          wfvars>>

EmptyFile == [x \in {} |-> << >>]

\* No removal failed.
NoWarnings == [clips |-> {}, list |-> FALSE]

\* The defaults of process_complete_workflow (lines 423-424).
DefaultFlags ==
    [concatenated |-> TRUE, synchronized |-> TRUE, stereo |-> TRUE, archives |-> FALSE]

\* __init__: nothing segmented, nothing loaded, no file produced yet.
InitWith(lists) ==
    /\ segmentation \in lists
    /\ segmenter = None
    /\ segments_df = None
    /\ audio = None
    /\ pc = "idle"
    /\ call = <<"__init__">>
    /\ i = 0
    /\ male_audio = << >>
    /\ female_audio = << >>
    /\ current_time_ms = 0
    /\ segment_files = << >>
    /\ slice_log = << >>
    /\ concat_input = None
    /\ merge_input = None
    /\ written = {}
    /\ warnings = NoWarnings
    /\ ret = None
    /\ raised = "none"
    /\ clips = {}
    /\ list_files = EmptyFile
    /\ concat_files = EmptyFile
    /\ synced_files = EmptyFile
    /\ stereo_files = None
    /\ archives = EmptyFile
    /\ wf_pc = "none"
    /\ flags = DefaultFlags
    /\ results = {}
    /\ outcome = EmptyFile

Init == InitWith(ContiguousLists(MaxCallRows))

InitRows == InitWith(ContiguousLists(MaxRows))

InitTimeline == InitWith(SegmentLists)

\* A call starts between calls; the records of what the previous call asked of
\* the slicer and the concatenator start empty.
Enter(c) ==
    /\ pc = "idle"
    /\ call' = c
    /\ slice_log' = << >>
    /\ concat_input' = None
    /\ warnings' = NoWarnings
    /\ UNCHANGED wfvars

\* ---------------------------------------------------------------- segment_audio
\* _process_segmentation_csv: one row per CSV line, columns labels, start, stop.
_process_segmentation_csv(csv) ==
    [n \in 1..Len(csv) |->
        [labels |-> csv[n].labels, start |-> csv[n].start, stop |-> csv[n].stop]]

\* segment_audio: loads the model if needed, runs it, saves and parses the CSV.
\* A failure of the classifier leaves segments_df as it was.
segment_audio ==
    /\ Enter(<<"segment_audio">>)
    /\ merge_input' = None
    /\ segmenter' = Some("Segmenter")
    /\ \E ok \in BOOLEAN :
          IF ok
          THEN /\ segments_df' = Some(_process_segmentation_csv(segmentation))
               /\ written' = {"segmentation_output.csv"}
               /\ ret' = Some("segments_df")
               /\ raised' = "none"
          ELSE /\ segments_df' = segments_df
               /\ written' = {}
               /\ ret' = None
               /\ raised' = "Exception"
    /\ UNCHANGED <<segmentation, audio, pc, i, syncvars, segment_files, diskvars>>

\* ---------------------------------------------------------------- create_synchronized_tracks
\* The guard of lines 289-290 (and 154-155).
NotSegmented(df) == df = None

\* Lines 305-345: one iteration of the loop over the rows.
LoopBody(male, female, cur, row) ==
    LET start_ms == ToMs(row.start)
        stop_ms == ToMs(row.stop)
        duration_ms == stop_ms - start_ms
        gap == IF start_ms > cur THEN silent(start_ms - cur) ELSE << >>
        segment_audio_ == AudioSlice(start_ms, stop_ms)
    IN  [male |-> male \o gap \o
                    (IF row.labels = "male" THEN segment_audio_ ELSE silent(duration_ms)),
         female |-> female \o gap \o
                    (IF row.labels = "female" THEN segment_audio_ ELSE silent(duration_ms)),
         cur |-> stop_ms]

\* Lines 348-357: silence up to the end of the Recording.
Trailing(track, cur) ==
    IF cur < RecordingMs THEN track \o silent(RecordingMs - cur) ELSE track

\* Mutant: the Recording is loaded before the guard is looked at.
LoadedAudio_BeforeGuard(df, a) == Some(RecordingMs)

\* Lines 289-295: self.audio is loaded only past the guard.
LoadedAudio(df, a) == IF NotSegmented(df) THEN a ELSE Some(RecordingMs)

\* Lines 289-301: the guard, then the Recording is loaded and the
\* accumulators start empty.
create_synchronized_tracks ==
    /\ Enter(<<"create_synchronized_tracks">>)
    /\ merge_input' = None
    /\ written' = {}
    /\ ret' = None
    /\ audio' = LoadedAudio(segments_df, audio)
    /\ IF NotSegmented(segments_df)
       THEN /\ raised' = "ValueError"
            /\ UNCHANGED <<pc, i, syncvars>>
       ELSE /\ raised' = "none"
            /\ male_audio' = silent(0)
            /\ female_audio' = silent(0)
            /\ current_time_ms' = 0
            /\ i' = 1
            /\ pc' = "sync_loop"
    /\ UNCHANGED <<segmentation, segmenter, segments_df, segment_files, diskvars>>

\* Lines 304-345: the next row is appended to both accumulators.
SyncIterate ==
    /\ pc = "sync_loop"
    /\ i <= Len(Get(segments_df))
    /\ LET r == LoopBody(male_audio, female_audio, current_time_ms, Get(segments_df)[i])
       IN  /\ male_audio' = r.male
           /\ female_audio' = r.female
           /\ current_time_ms' = r.cur
    /\ i' = i + 1
    /\ UNCHANGED <<objvars, pc, call, segment_files, logvars, ret, raised, diskvars,
                   wfvars>>

\* Lines 347-357: after the last row.
SyncTrailing ==
    /\ pc = "sync_loop"
    /\ i > Len(Get(segments_df))
    /\ male_audio' = Trailing(male_audio, current_time_ms)
    /\ female_audio' = Trailing(female_audio, current_time_ms)
    /\ pc' = "sync_export"
    /\ UNCHANGED <<objvars, call, i, current_time_ms, segment_files, logvars, ret, raised,
                   diskvars, wfvars>>

\* Lines 359-377: the durations are printed, both tracks are exported whatever
\* their lengths, and the method returns (its locals are gone).
SyncExport ==
    /\ pc = "sync_export"
    /\ synced_files' = [l \in VoiceLabels |->
                          IF l = "male" THEN male_audio ELSE female_audio]
    /\ written' = {"male_voice_synced.wav", "female_voice_synced.wav"}
    /\ ret' = Some(<<"male_voice_synced.wav", "female_voice_synced.wav">>)
    /\ pc' = "idle"
    /\ i' = 0
    /\ male_audio' = << >>
    /\ female_audio' = << >>
    /\ current_time_ms' = 0
    /\ UNCHANGED <<objvars, call, segment_files, slice_log, concat_input, merge_input,
                   warnings, raised, clips, list_files, concat_files, stereo_files,
                   archives, wfvars>>

\* ---------------------------------------------------------------- extract_speaker_segments
\* Line 160: the index labels (0-based) of the rows that carry the label, in
\* the order of the Segment List.
SpeakerSegments(df, speaker_label) ==
    SelectSeq([n \in 1..Len(df) |-> n - 1], LAMBDA idx : df[idx + 1].labels = speaker_label)

\* Line 172: f"{speaker_label}_segment_{idx}.wav".
SegmentFile(speaker_label, idx) == <<speaker_label, idx>>

\* Mutant: the clip is listed before the slice is known to have succeeded.
AfterSlice_AppendsAlways(files, segment_file, ok) == Append(files, segment_file)

\* Lines 190-195: a clip joins segment_files when its slice succeeded, a
\* failed slice is skipped.
AfterSlice(files, segment_file, ok) ==
    IF ok THEN Append(files, segment_file) ELSE files

\* Mutant: the empty case is not looked at.
NothingExtracted_Never(files) == FALSE

\* Line 197: no slice succeeded.
NothingExtracted(files) == files = << >>

\* A cleanup that removes nothing.
_cleanup_temp_files_RemovesNothing(disk, file_list, stuck) == disk

\* Lines 409-421: every listed file is removed, unless the removal fails
\* (OSError: a warning is printed and the file stays).
_cleanup_temp_files(disk, file_list, stuck) == disk \ (file_list \ stuck)

\* Mutant: the clean-up also runs when the concatenation failed.
AfterConcatError_CleansUp(disk, file_list) == disk \ file_list

\* Lines 227-229: a failed concatenation leaves every file where it is.
AfterConcatError(disk, file_list) == disk

Without(f, k) == [x \in (DOMAIN f) \ {k} |-> f[x]]

\* Lines 154-166: the guard, the filter, the empty case.
extract_speaker_segments ==
    \E speaker_label \in VoiceLabels :
        /\ Enter(<<"extract_speaker_segments", speaker_label>>)
        /\ merge_input' = None
        /\ written' = {}
        /\ ret' = None
        /\ IF NotSegmented(segments_df)
           THEN /\ raised' = "ValueError"
                /\ UNCHANGED <<pc, i, segment_files>>
           ELSE /\ raised' = "none"
                /\ IF SpeakerSegments(Get(segments_df), speaker_label) = << >>
                   THEN UNCHANGED <<pc, i, segment_files>>
                   ELSE /\ segment_files' = << >>
                        /\ i' = 1
                        /\ pc' = "extract_loop"
        /\ UNCHANGED <<objvars, syncvars, diskvars>>

\* Lines 169-195: one slice; ffmpeg succeeds or fails.
ExtractSlice ==
    /\ pc = "extract_loop"
    /\ LET speaker_label == call[2]
           speaker_segments == SpeakerSegments(Get(segments_df), speaker_label)
       IN  /\ i <= Len(speaker_segments)
           /\ \E ok \in BOOLEAN :
                LET idx == speaker_segments[i]
                    segment_file == SegmentFile(speaker_label, idx)
                IN  /\ segment_files' = AfterSlice(segment_files, segment_file, ok)
                    /\ clips' = IF ok THEN clips \cup {segment_file} ELSE clips
                    /\ slice_log' = Append(slice_log, <<idx, ok>>)
    /\ i' = i + 1
    /\ UNCHANGED <<objvars, pc, call, syncvars, concat_input, merge_input, written,
                   warnings, ret, raised, list_files, concat_files, synced_files,
                   stereo_files, archives, wfvars>>

\* Lines 197-205: nothing sliced, or the list file is written.
ExtractList ==
    /\ pc = "extract_loop"
    /\ LET speaker_label == call[2]
       IN  /\ i > Len(SpeakerSegments(Get(segments_df), speaker_label))
           /\ IF NothingExtracted(segment_files)
              THEN /\ pc' = "idle"
                   /\ i' = 0
                   /\ UNCHANGED list_files
              ELSE /\ pc' = "extract_concat"
                   /\ i' = i
                   /\ list_files' = (speaker_label :> segment_files) @@ list_files
    /\ UNCHANGED <<objvars, call, syncvars, segment_files, logvars, ret, raised, clips,
                   concat_files, synced_files, stereo_files, archives, wfvars>>

\* Lines 207-229: the concatenator reads the list file; on success the output
\* exists and the temporary files are cleaned up, on failure None is returned.
ExtractConcat ==
    /\ pc = "extract_concat"
    /\ LET speaker_label == call[2]
           listed == list_files[speaker_label]
           file_list == {segment_files[n] : n \in 1..Len(segment_files)}
       IN  /\ concat_input' = Some(listed)
           /\ \E ok \in BOOLEAN :
                IF ok
                THEN /\ concat_files' = (speaker_label :> listed) @@ concat_files
                     /\ written' = {<<speaker_label, "concatenated">>}
                     /\ ret' = Some(<<speaker_label, "concatenated">>)
                     /\ \E stuck \in SUBSET file_list, keep_list \in BOOLEAN :
                          /\ clips' = _cleanup_temp_files(clips, file_list, stuck)
                          /\ list_files' = IF keep_list THEN list_files
                                           ELSE Without(list_files, speaker_label)
                          /\ warnings' = [clips |-> stuck, list |-> keep_list]
                ELSE /\ clips' = AfterConcatError(clips, file_list)
                     /\ ret' = None
                     /\ UNCHANGED <<concat_files, written, list_files, warnings>>
    /\ pc' = "idle"
    /\ i' = 0
    /\ segment_files' = << >>
    /\ UNCHANGED <<objvars, call, syncvars, slice_log, merge_input, raised, synced_files,
                   stereo_files, archives, wfvars>>

\* ---------------------------------------------------------------- create_stereo_mix
\* Line 243: both input files must exist.
BothExist(disk, male_file, female_file) ==
    male_file \in DOMAIN disk /\ female_file \in DOMAIN disk

\* Mutant: the merger is invoked for tracks of equal length only.
MergerInvoked_ChecksLengths(disk, male_file, female_file) ==
    /\ BothExist(disk, male_file, female_file)
    /\ Len(disk[male_file]) = Len(disk[female_file])

\* Lines 243-262: the channel merger is invoked when both files exist; their
\* lengths are not compared.
MergerInvoked(disk, male_file, female_file) == BothExist(disk, male_file, female_file)

\* Lines 231-270.  amerge stops with the shorter input.
create_stereo_mix ==
    \E male_file \in VoiceLabels, female_file \in VoiceLabels :
        /\ Enter(<<"create_stereo_mix", male_file, female_file>>)
        /\ raised' = "none"
        /\ IF MergerInvoked(synced_files, male_file, female_file)
           THEN /\ merge_input' = Some(<<Len(synced_files[male_file]),
                                         Len(synced_files[female_file])>>)
                /\ \E ok \in BOOLEAN :
                     IF ok
                     THEN /\ stereo_files' = Some(Min(Len(synced_files[male_file]),
                                                      Len(synced_files[female_file])))
                          /\ written' = {"stereo_mix.wav"}
                          /\ ret' = Some("stereo_mix.wav")
                     ELSE /\ written' = {}
                          /\ ret' = None
                          /\ UNCHANGED stereo_files
           ELSE /\ merge_input' = None
                /\ written' = {}
                /\ ret' = None
                /\ UNCHANGED stereo_files
        /\ UNCHANGED <<objvars, pc, i, syncvars, segment_files, clips, list_files,
                       concat_files, synced_files, archives>>

\* ---------------------------------------------------------------- create_segment_archive
\* Line 394: glob.glob(f'{speaker_label}_segment*.wav').
Glob(disk, speaker_label) == {f \in disk : f[1] = speaker_label}

\* Lines 379-407.
create_segment_archive ==
    \E speaker_label \in VoiceLabels :
        /\ Enter(<<"create_segment_archive", speaker_label>>)
        /\ merge_input' = None
        /\ raised' = "none"
        /\ LET found == Glob(clips, speaker_label)
           IN  IF found = {}
               THEN /\ ret' = None
                    /\ written' = {}
                    /\ UNCHANGED archives
               ELSE /\ archives' = (speaker_label :> found) @@ archives
                    /\ written' = {<<speaker_label, "segments.zip">>}
                    /\ ret' = Some(<<speaker_label, "segments.zip">>)
        /\ UNCHANGED <<objvars, pc, i, syncvars, segment_files, clips, list_files,
                       concat_files, synced_files, stereo_files>>

\* ---------------------------------------------------------------- process_complete_workflow
\* The calls of lines 442-477, in the order the workflow makes them.
Steps ==
    <<"segment", "male_concat", "female_concat", "sync", "stereo", "male_archive",
      "female_archive">>

\* The call made at a step.
StepCall(step) ==
    CASE step = "segment" -> <<"segment_audio">>
      [] step = "male_concat" -> <<"extract_speaker_segments", "male">>
      [] step = "female_concat" -> <<"extract_speaker_segments", "female">>
      [] step = "sync" -> <<"create_synchronized_tracks">>
      [] step = "stereo" -> <<"create_stereo_mix", "male", "female">>
      [] step = "male_archive" -> <<"create_segment_archive", "male">>
      [] step = "female_archive" -> <<"create_segment_archive", "female">>

\* Lines 445, 456, 463, 474: the arguments that switch a step on.
Runs(step, f) ==
    CASE step = "segment" -> TRUE
      [] step \in {"male_concat", "female_concat"} -> f.concatenated
      [] step = "sync" -> f.synchronized
      [] step = "stereo" -> f.stereo /\ f.synchronized
      [] step \in {"male_archive", "female_archive"} -> f.archives

\* The step after a step, "returned" after the last one (line 489).
After(step, f) ==
    LET at == CHOOSE n \in 1..Len(Steps) : Steps[n] = step
        later == {m \in (at + 1)..Len(Steps) : Runs(Steps[m], f)}
    IN  IF later = {} THEN "returned"
        ELSE Steps[CHOOSE m \in later : \A o \in later : m <= o]

\* Lines 450-453, 459-460, 470-471, 479-482: the keys a finished call adds.
Collected(step, r) ==
    CASE step = "segment" -> {}
      [] step = "male_concat" -> IF r # None THEN {"male_concatenated"} ELSE {}
      [] step = "female_concat" -> IF r # None THEN {"female_concatenated"} ELSE {}
      [] step = "sync" -> {"male_synchronized", "female_synchronized"}
      [] step = "stereo" -> IF r # None THEN {"stereo_mix"} ELSE {}
      [] step = "male_archive" -> IF r # None THEN {"male_archive"} ELSE {}
      [] step = "female_archive" -> IF r # None THEN {"female_archive"} ELSE {}

\* What an extraction ended in, as its return value and its messages tell.
Ended(r, concatenated, warned) ==
    IF r # None
    THEN IF warned.clips # {} THEN "extracted, clips stuck" ELSE "extracted"
    ELSE IF concatenated # None THEN "concatenation failed" ELSE "absent"

\* Lines 423-437: the workflow starts on a new object.
process_complete_workflow ==
    /\ wf_pc = "none"
    /\ pc = "idle"
    /\ \E f \in [concatenated : BOOLEAN, synchronized : BOOLEAN, stereo : BOOLEAN,
                  archives : BOOLEAN] : flags' = f
    /\ wf_pc' = "segment"
    /\ results' = {}
    /\ outcome' = EmptyFile
    /\ UNCHANGED <<objvars, pc, call, i, syncvars, segment_files, logvars, ret, raised,
                   diskvars>>

\* The workflow makes the call of the step it is at.
WorkflowCall ==
    /\ wf_pc \in {Steps[n] : n \in 1..Len(Steps)}
    /\ call # StepCall(wf_pc)
    /\ \/ segment_audio
       \/ extract_speaker_segments
       \/ create_synchronized_tracks
       \/ create_stereo_mix
       \/ create_segment_archive
    /\ call' = StepCall(wf_pc)

\* The call has returned: its result is stored and the workflow moves on; an
\* exception ends the workflow (lines 491-493).
WorkflowCollect ==
    /\ wf_pc \in {Steps[n] : n \in 1..Len(Steps)}
    /\ call = StepCall(wf_pc)
    /\ pc = "idle"
    /\ IF raised # "none"
       THEN /\ wf_pc' = "raised"
            /\ UNCHANGED <<results, outcome>>
       ELSE /\ wf_pc' = After(wf_pc, flags)
            /\ results' = results \cup Collected(wf_pc, ret)
            /\ outcome' = IF wf_pc \in {"male_concat", "female_concat"}
                          THEN (call[2] :> Ended(ret, concat_input, warnings)) @@ outcome
                          ELSE outcome
    /\ UNCHANGED <<objvars, pc, call, i, syncvars, segment_files, logvars, ret, raised,
                   diskvars, flags>>

\* ---------------------------------------------------------------- specifications
Next ==
    \/ segment_audio
    \/ create_synchronized_tracks
    \/ SyncIterate
    \/ SyncTrailing
    \/ SyncExport
    \/ extract_speaker_segments
    \/ ExtractSlice
    \/ ExtractList
    \/ ExtractConcat
    \/ create_stereo_mix
    \/ create_segment_archive

\* Any sequence of method calls on one object.
Spec == Init /\ [][Next]_vars

NextTimeline ==
    \/ segment_audio
    \/ create_synchronized_tracks
    \/ SyncIterate
    \/ SyncTrailing
    \/ SyncExport

\* Timeline reconstruction alone, over every Segment List.
SpecTimeline == InitTimeline /\ [][NextTimeline]_vars

NextExtract ==
    \/ segment_audio
    \/ extract_speaker_segments
    \/ ExtractSlice
    \/ ExtractList
    \/ ExtractConcat

\* Segment extraction alone.
SpecExtract == InitRows /\ [][NextExtract]_vars

NextMix ==
    \/ segment_audio
    \/ create_synchronized_tracks
    \/ SyncIterate
    \/ SyncTrailing
    \/ SyncExport
    \/ create_stereo_mix

\* Timeline reconstruction followed by the channel mix.
SpecMix == InitRows /\ [][NextMix]_vars

NextWorkflow ==
    \/ process_complete_workflow
    \/ WorkflowCall
    \/ WorkflowCollect
    \/ SyncIterate
    \/ SyncTrailing
    \/ SyncExport
    \/ ExtractSlice
    \/ ExtractList
    \/ ExtractConcat

\* One run of process_complete_workflow on a new object, no file on disk.
SpecWorkflow == InitRows /\ [][NextWorkflow]_vars

\* ---------------------------------------------------------------- reading the state
\* The Segment List, once segment_audio has set it.
df == Get(segments_df)

\* The running or last call is create_synchronized_tracks and it got past its guard.
Reconstructing == call = <<"create_synchronized_tracks">> /\ raised = "none"

\* The last call was create_synchronized_tracks and it returned its two tracks.
Reconstructed == Reconstructing /\ pc = "idle" /\ written # {}

\* Row n in whole milliseconds, its stop clamped to the Recording's length.
StartMs(n) == ToMs(df[n].start)
StopMs(n) == ToMs(df[n].stop)
ClampedStopMs(n) == Min(StopMs(n), RecordingMs)

\* Row n starts before the point the rows before it have reached.
Regresses(n) == n > 1 /\ StartMs(n) < ClampedStopMs(n - 1)

\* The Segment List is chronological, free of overlaps and inside the Recording.
WellFormed ==
    \A n \in 1..Len(df) : ~Regresses(n) /\ StopMs(n) <= RecordingMs

\* Millisecond t lies inside a row labelled l.
Covered(t, l) == \E n \in 1..Len(df) : df[n].labels = l /\ StartMs(n) <= t /\ t < StopMs(n)

\* What a track holds at millisecond t.
HoldsAudio(track, t) == t < Len(track) /\ track[t + 1] = <<t>>
IsSilent(track, t) == t < Len(track) /\ track[t + 1] = << >>

\* The partition at millisecond t of the exported tracks.
PartitionAt(t) ==
    /\ \A l \in VoiceLabels :
          Covered(t, l) =>
              /\ HoldsAudio(synced_files[l], t)
              /\ \A o \in VoiceLabels \ {l} : IsSilent(synced_files[o], t)
    /\ (\A l \in VoiceLabels : ~Covered(t, l)) =>
          \A o \in VoiceLabels : IsSilent(synced_files[o], t)

\* ---------------------------------------------------------------- C1
\* C1: every Synchronized Track that create_synchronized_tracks exports is as
\* long as the Recording; a track of another length is never exported.
C1_DurationInvariant ==
    \A l \in DOMAIN synced_files : Len(synced_files[l]) = RecordingMs

\* The same for well-formed Segment Lists only: the lengths go wrong only with
\* rows that regress or end beyond the Recording.
DurationOfWellFormed ==
    (Reconstructed /\ WellFormed) =>
        \A l \in VoiceLabels : Len(synced_files[l]) = RecordingMs

\* ---------------------------------------------------------------- C2
\* C2: at every millisecond t of the Recording, a t inside a row with a voice
\* label is audio of the Recording on that label's track and silence on the
\* other track; any other t is silence on both tracks.
C2_ExhaustivePartition ==
    Reconstructed => \A t \in 0..(RecordingMs - 1) : PartitionAt(t)

\* The same for Segment Lists without regressing rows.
PartitionOfChronological ==
    (Reconstructed /\ \A n \in 1..Len(df) : ~Regresses(n)) =>
        \A t \in 0..(RecordingMs - 1) : PartitionAt(t)

\* ---------------------------------------------------------------- C3
\* C3: a Segment List with a row that starts below the cursor makes the
\* reconstruction abort with a StructuralViolation, and no track is exported.
C3_RegressionAborts ==
    (call = <<"create_synchronized_tracks">> /\ pc = "idle" /\ segments_df # None
        /\ \E n \in 1..Len(df) : Regresses(n))
    => (raised = "StructuralViolation" /\ written = {})

\* ---------------------------------------------------------------- C7
\* C7: after a row whose stop lies beyond the Recording the cursor is the
\* Recording's length and no accumulator is longer than the Recording.
C7_StopClamped ==
    (pc = "sync_loop" /\ i > 1 /\ StopMs(i - 1) > RecordingMs) =>
        /\ current_time_ms = RecordingMs
        /\ Len(male_audio) <= RecordingMs
        /\ Len(female_audio) <= RecordingMs

\* ---------------------------------------------------------------- C9
\* C9: after every iteration of the loop and after the trailing silence the
\* two accumulators are equally long, and after every iteration that length is
\* the cursor.  (After the trailing silence the code leaves current_time_ms
\* where the last row put it; that part of the claim is not stated here.)
C9_LockStep ==
    /\ pc \in {"sync_loop", "sync_export"} => Len(male_audio) = Len(female_audio)
    /\ pc = "sync_loop" => Len(male_audio) = current_time_ms

\* The same for well-formed Segment Lists only.
LockStepOfWellFormed ==
    (pc \in {"sync_loop", "sync_export"} /\ WellFormed) =>
        /\ Len(male_audio) = Len(female_audio)
        /\ pc = "sync_loop" => Len(male_audio) = current_time_ms

\* ---------------------------------------------------------------- reading an extraction
\* The running or last call is extract_speaker_segments on a Segment List.
Extracting == call[1] = "extract_speaker_segments" /\ segments_df # None

\* The rows of the requested label, and the slices that succeeded among them.
Requested == SpeakerSegments(df, call[2])
Succeeded(idx) == \E n \in 1..Len(slice_log) : slice_log[n] = <<idx, TRUE>>
SucceededClips ==
    LET kept == SelectSeq(Requested, Succeeded)
    IN  [n \in 1..Len(kept) |-> SegmentFile(call[2], kept[n])]

\* The concatenator was invoked and failed: it was called, nothing was written.
ConcatFailed == Extracting /\ pc = "idle" /\ concat_input # None /\ written = {}

\* ---------------------------------------------------------------- C4
\* C4: the clips handed to the concatenator are the requested label's rows
\* with the failed slices removed, in the order of the Segment List, and every
\* row of the label was sliced once, whatever failed before it.
C4_ClipsInOrder ==
    (Extracting /\ concat_input # None) =>
        /\ [n \in 1..Len(slice_log) |-> slice_log[n][1]] = Requested
        /\ Get(concat_input) = SucceededClips

\* Three rows of one label, the middle slice failed, the other two were joined.
C4_Witness ==
    /\ Extracting /\ concat_input # None
    /\ Len(slice_log) = 3
    /\ slice_log[1][2] /\ ~slice_log[2][2] /\ slice_log[3][2]
    /\ Len(Get(concat_input)) = 2

\* ---------------------------------------------------------------- C5
\* C5: when no row carries the requested label (the empty Segment List
\* included) or every slice failed, extract_speaker_segments returns None,
\* raises nothing, never invokes the concatenator and writes no output.
C5_AbsentWithoutConcat ==
    (Extracting /\ pc = "idle" /\ \A n \in 1..Len(slice_log) : ~slice_log[n][2]) =>
        /\ ret = None
        /\ raised = "none"
        /\ concat_input = None
        /\ written = {}

\* Two rows of the label, both slices failed.
C5_Witness ==
    /\ Extracting /\ pc = "idle"
    /\ Len(slice_log) = 2
    /\ \A n \in 1..Len(slice_log) : ~slice_log[n][2]

\* ---------------------------------------------------------------- C6
\* C6 as stated: a failed concatenation ends in a ConcatenationError, an
\* outcome other than that of an absent label, and the clips stay on disk.
C6_ConcatErrorRaised ==
    ConcatFailed =>
        /\ raised = "ConcatenationError"
        /\ \A n \in 1..Len(Get(concat_input)) : Get(concat_input)[n] \in clips

\* C6 as amended: a failed concatenation returns None and raises nothing, the
\* outcome of an absent label; the clips and the list file stay on disk.
C6_ConcatFailureKeepsClips ==
    ConcatFailed =>
        /\ ret = None
        /\ raised = "none"
        /\ \A n \in 1..Len(Get(concat_input)) : Get(concat_input)[n] \in clips
        /\ call[2] \in DOMAIN list_files
        /\ list_files[call[2]] = Get(concat_input)

\* Two clips were sliced and the concatenation failed.
C6_Witness == ConcatFailed /\ Len(Get(concat_input)) = 2

\* ---------------------------------------------------------------- C8
\* The last call is create_stereo_mix on two existing tracks of different lengths.
MixOfUnequal ==
    /\ call[1] = "create_stereo_mix"
    /\ BothExist(synced_files, call[2], call[3])
    /\ Len(synced_files[call[2]]) # Len(synced_files[call[3]])

\* C8 as stated: a mix of two tracks of different lengths fails with a
\* DurationMismatchError, the merger is not invoked, no stereo file is written.
C8_MismatchRejected ==
    MixOfUnequal =>
        /\ raised = "DurationMismatchError"
        /\ merge_input = None
        /\ written = {}

\* C8 as amended: create_stereo_mix never compares lengths; it raises nothing,
\* invokes the merger exactly when both input files exist, and writes the
\* stereo file exactly when it returns it.
C8_MixIgnoresLengths ==
    call[1] = "create_stereo_mix" =>
        /\ raised = "none"
        /\ (merge_input # None) <=> BothExist(synced_files, call[2], call[3])
        /\ ret # None => (merge_input # None /\ written = {"stereo_mix.wav"})
        /\ ret = None => written = {}

\* Two tracks of different lengths were merged and the mix was returned.
C8_Witness ==
    /\ MixOfUnequal
    /\ merge_input # None
    /\ ret = Some("stereo_mix.wav")

\* ---------------------------------------------------------------- C10
\* A step that enters the named method.
Enters(method) == pc = "idle" /\ call'[1] = method

\* C10: extract_speaker_segments and create_synchronized_tracks entered before
\* segment_audio has set the Segment List raise ValueError and slice nothing,
\* load no audio and write no file; once set, the Segment List is left as it
\* is by every step of every method but segment_audio.
C10_SequencingGuard ==
    [][/\ (segments_df = None
            /\ (Enters("extract_speaker_segments") \/ Enters("create_synchronized_tracks")))
          => /\ raised' = "ValueError"
             /\ pc' = "idle"
             /\ slice_log' = << >>
             /\ concat_input' = None
             /\ written' = {}
             /\ audio' = audio
             /\ diskvars' = diskvars
             /\ segments_df' = None
       /\ (segments_df # None /\ call'[1] # "segment_audio")
          => segments_df' = segments_df]_vars

\* segment_audio was tried and failed, and the next call hit the guard.
C10_Witness ==
    /\ segmenter # None
    /\ segments_df = None
    /\ call[1] \in {"extract_speaker_segments", "create_synchronized_tracks"}
    /\ raised = "ValueError"

\* ---------------------------------------------------------------- C11
\* extract_speaker_segments has just returned an output path.
ExtractReturnedPath == Extracting /\ pc = "idle" /\ ret # None

\* The workflow has returned its results and was asked for concatenated
\* tracks and for archives.
ArchivedAfterExtraction == wf_pc = "returned" /\ flags.concatenated /\ flags.archives

ArchiveKey(l) == IF l = "male" THEN "male_archive" ELSE "female_archive"

====
